---- MODULE Spec2Model ----
(***************************************************************************)
(* A model of app.py, the Streamlit credit-card statement parser: one      *)
(* execution of the script (one Streamlit run) from the API-key check to   *)
(* the "Extraction complete" message.                                      *)
(*                                                                         *)
(* Python strings are sequences of one-character strings.  Python's None   *)
(* is the value None below.  A parsed JSON value is a record whose single  *)
(* field names its type: [str |-> chars], [num |-> n], [lit |-> name],     *)
(* [arr |-> sequence of values], [obj |-> mapping]; a mapping (a Python    *)
(* dict) is a function from keys (character sequences) to values.  A       *)
(* character that a TLA+ string cannot hold is written as its Python       *)
(* escape: "\\x0b" is the one character U+000B.                            *)
(***************************************************************************)
EXTENDS Integers, Sequences, FiniteSets, TLC

VARIABLES
    groq_key,        \* os.getenv("GROQ_API_KEY")
    checkboxes,      \* the ten sidebar checkboxes, field name -> BOOLEAN
    extract_btn,     \* st.button("Extract Data")
    uploaded_file,   \* st.file_uploader(...): [present, npages]
    focus,           \* which input dimension this run explores exhaustively
    pc,              \* position of the script
    client,          \* TRUE once OpenAI(...) has been constructed
    selected_fields, \* list built from the checkboxes
    page_idx,        \* pages of the PDF already handled by extract_text_from_pdf
    texts,           \* the list texts of extract_text_from_pdf
    page_log,        \* per handled page: its text layer, whether it was rendered
                     \* and OCRed, and what the OCR returned
    pdf_text,        \* result of extract_text_from_pdf
    prompt,          \* the prompt string, as its interpolated parts
    messages,        \* the messages of the chat-completion requests sent
    llm_calls,       \* number of client.chat.completions.create calls
    llm_outcome,     \* "none", "returned" or "raised"
    response_text,   \* the completion text
    parse_failed,    \* TRUE when the except branch of the JSON step ran
    result,          \* the mapping result
    tx_df,           \* [defined, rows]: the transaction DataFrame
    ui               \* sequence of Streamlit elements emitted by this run

vars == <<groq_key, checkboxes, extract_btn, uploaded_file, focus, pc, client,
          selected_fields, page_idx, texts, page_log, pdf_text, prompt,
          messages, llm_calls, llm_outcome, response_text, parse_failed,
          result, tx_df, ui>>

\* Python's None, kept apart from every character sequence.
None == <<"<None>">>

----------------------------------------------------------------------------
(* Python string primitives *)

Rep(c, n) == [i \in 1..n |-> c]

Min(a, b) == IF a < b THEN a ELSE b

\* s[:n + 1]: the slice taken one character too far
PrefixOffByOne(s, n) == SubSeq(s, 1, Min(Len(s), n + 1))

\* s[:n]
Prefix(s, n) == SubSeq(s, 1, Min(Len(s), n))

\* characters removed by str.strip(): those for which str.isspace() holds
StripSpace ==
    {" ", "\t", "\n", "\r", "\f", "\\x0b", "\\x1c", "\\x1d", "\\x1e",
     "\\x1f", "\\x85", "\\xa0", "\\u1680", "\\u2000", "\\u2001",
     "\\u2002", "\\u2003", "\\u2004", "\\u2005", "\\u2006", "\\u2007",
     "\\u2008", "\\u2009", "\\u200a", "\\u2028", "\\u2029", "\\u202f",
     "\\u205f", "\\u3000"}

\* characters skipped by the JSON decoder
JsonSpace == {" ", "\t", "\n", "\r"}

Letters == {"a","b","c","d","e","f","g","h","i","j","k","l","m","n","o","p",
            "q","r","s","t","u","v","w","x","y","z"}

Digits == {"0","1","2","3","4","5","6","7","8","9"}

\* t.strip(): whitespace is dropped from the left end, then from the right
RECURSIVE FirstKept(_, _, _), LastKept(_, _, _)
FirstKept(t, i, ws) ==
    IF i <= Len(t) /\ t[i] \in ws THEN FirstKept(t, i + 1, ws) ELSE i

LastKept(t, i, ws) ==
    IF i >= 1 /\ t[i] \in ws THEN LastKept(t, i - 1, ws) ELSE i

Strip(t) ==
    SubSeq(t, FirstKept(t, 1, StripSpace), LastKept(t, Len(t), StripSpace))

\* s.split(c, 1): the part after the first c; fails (IndexError on [1]) when
\* c does not occur
HasChar(s, c) == \E i \in 1..Len(s) : s[i] = c

\* s.rsplit(c, 1)[1] in place of s.split(c, 1)[1]: the part after the last c
SplitAfterLast(s, c) ==
    LET i == CHOOSE k \in 1..Len(s) :
                 s[k] = c /\ \A j \in (k+1)..Len(s) : s[j] # c
    IN  SubSeq(s, i + 1, Len(s))

SplitAfterFirst(s, c) ==
    LET i == CHOOSE k \in 1..Len(s) : s[k] = c /\ \A j \in 1..(k-1) : s[j] # c
    IN  SubSeq(s, i + 1, Len(s))

\* s.rsplit(c, 1)[0]: the part before the last c; the whole of s when c does
\* not occur
RsplitBeforeLast(s, c) ==
    IF ~HasChar(s, c) THEN s
    ELSE LET i == CHOOSE k \in 1..Len(s) :
                     s[k] = c /\ \A j \in (k+1)..Len(s) : s[j] # c
         IN  SubSeq(s, 1, i - 1)

\* sep.join(parts)
RECURSIVE Join(_, _)
Join(sep, parts) ==
    IF Len(parts) = 0 THEN <<>>
    ELSE IF Len(parts) = 1 THEN parts[1]
    ELSE parts[1] \o sep \o Join(sep, Tail(parts))

----------------------------------------------------------------------------
(* json.loads, for texts in which no string holds a backslash or a control *)
(* character and no number has a fraction or an exponent (a digit is never *)
(* followed by ".", "e" or "E").                                           *)

Fail == [ok |-> FALSE, val |-> <<>>, next |-> 0]
Ok(v, n) == [ok |-> TRUE, val |-> v, next |-> n]

CharAt(s, i) == IF i >= 1 /\ i <= Len(s) THEN s[i] ELSE "<end>"

RECURSIVE SkipWs(_, _)
SkipWs(s, i) == IF CharAt(s, i) \in JsonSpace THEN SkipWs(s, i + 1) ELSE i

\* scanstring: i is the position after the opening quote
ScanString(s, i) ==
    LET closes == {k \in i..Len(s) : s[k] = "\""}
    IN  IF closes = {} THEN Fail
        ELSE LET e == CHOOSE k \in closes : \A j \in closes : k <= j
             IN  Ok(SubSeq(s, i, e - 1), e + 1)

DigitVal(c) ==
    CASE c = "0" -> 0 [] c = "1" -> 1 [] c = "2" -> 2 [] c = "3" -> 3
      [] c = "4" -> 4 [] c = "5" -> 5 [] c = "6" -> 6 [] c = "7" -> 7
      [] c = "8" -> 8 [] c = "9" -> 9

RECURSIVE ScanDigits(_, _, _)
ScanDigits(s, i, acc) ==
    IF CharAt(s, i) \in Digits
    THEN ScanDigits(s, i + 1, 10 * acc + DigitVal(s[i]))
    ELSE Ok([num |-> acc], i)

\* NUMBER_RE: (-?(?:0|[1-9]\d*)); fails when no digit follows the sign
ScanNumber(s, i) ==
    LET neg == CharAt(s, i) = "-"
        d == IF neg THEN i + 1 ELSE i
    IN  IF CharAt(s, d) \notin Digits THEN Fail
        ELSE LET r == IF s[d] = "0" THEN Ok([num |-> 0], d + 1)
                      ELSE ScanDigits(s, d, 0)
             IN  IF neg THEN Ok([num |-> 0 - r.val.num], r.next) ELSE r

IsWord(s, i, w) == i + Len(w) - 1 <= Len(s) /\ SubSeq(s, i, i + Len(w) - 1) = w

RECURSIVE ScanOnce(_, _), JSONObject(_, _), ObjectPairs(_, _, _),
          JSONArray(_, _), ArrayItems(_, _, _)

\* scan_once(s, idx)
ScanOnce(s, i) ==
    LET c == CharAt(s, i)
    IN  CASE c = "\"" ->
               LET r == ScanString(s, i + 1)
               IN  IF r.ok THEN Ok([str |-> r.val], r.next) ELSE Fail
          [] c = "{" -> JSONObject(s, i + 1)
          [] c = "[" -> JSONArray(s, i + 1)
          [] c = "n" /\ IsWord(s, i, <<"n","u","l","l">>) ->
               Ok([lit |-> "null"], i + 4)
          [] c = "t" /\ IsWord(s, i, <<"t","r","u","e">>) ->
               Ok([lit |-> "true"], i + 4)
          [] c = "f" /\ IsWord(s, i, <<"f","a","l","s","e">>) ->
               Ok([lit |-> "false"], i + 5)
          [] c \in Digits -> ScanNumber(s, i)
          [] c = "-" /\ ScanNumber(s, i).ok -> ScanNumber(s, i)
          [] c = "N" /\ IsWord(s, i, <<"N","a","N">>) ->
               Ok([lit |-> "nan"], i + 3)
          [] c = "I" /\ IsWord(s, i, <<"I","n","f","i","n","i","t","y">>) ->
               Ok([lit |-> "inf"], i + 8)
          [] c = "-"
             /\ IsWord(s, i, <<"-","I","n","f","i","n","i","t","y">>) ->
               Ok([lit |-> "-inf"], i + 9)
          [] OTHER -> Fail

\* the while loop of JSONObject: i is the position after the opening quote
\* of a key, acc the pairs read so far (a later pair replaces an earlier one
\* with the same key, as dict(pairs) does)
ObjectPairs(s, i, acc) ==
    LET k == ScanString(s, i)
    IN  IF ~k.ok THEN Fail
        ELSE LET c == SkipWs(s, k.next)
             IN  IF CharAt(s, c) # ":" THEN Fail
                 ELSE LET v == ScanOnce(s, SkipWs(s, c + 1))
                      IN  IF ~v.ok THEN Fail
                          ELSE LET acc2 == (k.val :> v.val) @@ acc
                                   e == SkipWs(s, v.next)
                               IN  IF CharAt(s, e) = "}"
                                   THEN Ok([obj |-> acc2], e + 1)
                                   ELSE IF CharAt(s, e) # "," THEN Fail
                                   ELSE LET q == SkipWs(s, e + 1)
                                        IN  IF CharAt(s, q) # "\"" THEN Fail
                                            ELSE ObjectPairs(s, q + 1, acc2)

\* JSONObject: i is the position after the opening brace
JSONObject(s, i) ==
    LET j == SkipWs(s, i)
    IN  IF CharAt(s, j) = "}" THEN Ok([obj |-> <<>>], j + 1)
        ELSE IF CharAt(s, j) # "\"" THEN Fail
        ELSE ObjectPairs(s, j + 1, <<>>)

\* the while loop of JSONArray
ArrayItems(s, i, acc) ==
    LET v == ScanOnce(s, i)
    IN  IF ~v.ok THEN Fail
        ELSE LET acc2 == Append(acc, v.val)
                 e == SkipWs(s, v.next)
             IN  IF CharAt(s, e) = "]" THEN Ok([arr |-> acc2], e + 1)
                 ELSE IF CharAt(s, e) # "," THEN Fail
                 ELSE ArrayItems(s, SkipWs(s, e + 1), acc2)

\* JSONArray: i is the position after the opening bracket
JSONArray(s, i) ==
    LET j == SkipWs(s, i)
    IN  IF CharAt(s, j) = "]" THEN Ok([arr |-> <<>>], j + 1)
        ELSE ArrayItems(s, j, <<>>)

\* json.loads(s): one value, then only whitespace ("Extra data" otherwise)
JsonLoads(s) ==
    LET r == ScanOnce(s, SkipWs(s, 1))
    IN  IF r.ok /\ SkipWs(s, r.next) = Len(s) + 1 THEN r ELSE Fail

----------------------------------------------------------------------------
(* Program constants and literals *)

\* len(t.strip()) < 40
Threshold == 40

\* pdf_text[:7000]
Limit == 7000

\* keys of the dict literal that builds selected_fields, in its order
FieldOrder ==
    <<"issuer (bank name)", "customer name", "credit card variant",
      "card last 4 digits", "billing cycle from", "billing cycle to",
      "payment due date", "total amount due", "minimum amount due",
      "transaction information">>

FieldNames == {FieldOrder[i] : i \in 1..Len(FieldOrder)}

\* raw_output
RawKey ==
    <<"r","a","w","_","o","u","t","p","u","t">>

\* transaction information
TxKey ==
    <<"t","r","a","n","s","a","c","t","i","o","n"," ","i","n","f","o","r",
      "m","a","t","i","o","n">>

\* amount
AmountKey ==
    <<"a","m","o","u","n","t">>

\* type (credit/debit)
TypeKey ==
    <<"t","y","p","e"," ","(","c","r","e","d","i","t","/","d","e","b","i",
      "t",")">>

Debit == <<"d","e","b","i","t">>

Credit == <<"c","r","e","d","i","t">>

----------------------------------------------------------------------------
(* Bounds and input sets *)

\* completion texts explored exhaustively: up to MaxFrags fragments
MaxFrags == 5

\* pages of an uploaded PDF
MaxPages == 2

\* whitespace put on each side of a padded page text
PadLen == 6

\* the four input dimensions; a run explores one of them exhaustively and
\* draws the others from a few representatives
Focuses == {"recon", "norm", "fields", "trunc"}

\* an opening brace, a closing brace, a key with its colon, a number and a
\* character of plain text
Frags == {<<"{">>, <<"}">>, <<"\"", "k", "\"", ":">>, <<"1">>, <<"x">>}

RECURSIVE FragTexts(_)
FragTexts(n) ==
    IF n = 0 THEN {<<>>}
    ELSE LET shorter == FragTexts(n - 1)
         IN  shorter \cup {t \o f : t \in shorter, f \in Frags}

\* Here: {"issuer (bank name)":"hdfc","transaction information":
\*   [{"amount":"12","type (credit/debit)":"debit"},
\*    {"amount":5,"type (credit/debit)":"credit"}]}
TxCompletion ==
    <<"H","e","r","e",":"," ","{","\"","i","s","s","u","e","r"," ","(","b",
      "a","n","k"," ","n","a","m","e",")","\"",":","\"","h","d","f","c",
      "\"",",","\"","t","r","a","n","s","a","c","t","i","o","n"," ","i","n",
      "f","o","r","m","a","t","i","o","n","\"",":","[","{","\"","a","m","o",
      "u","n","t","\"",":","\"","1","2","\"",",","\"","t","y","p","e"," ",
      "(","c","r","e","d","i","t","/","d","e","b","i","t",")","\"",":","\"",
      "d","e","b","i","t","\"","}",",","{","\"","a","m","o","u","n","t",
      "\"",":","5",",","\"","t","y","p","e"," ","(","c","r","e","d","i","t",
      "/","d","e","b","i","t",")","\"",":","\"","c","r","e","d","i","t",
      "\"","}","]","}">>

\* {"transaction information":[{"date":"d","amount":"7"}]}
TxNoTypeCompletion ==
    <<"{","\"","t","r","a","n","s","a","c","t","i","o","n"," ","i","n","f",
      "o","r","m","a","t","i","o","n","\"",":","[","{","\"","d","a","t","e",
      "\"",":","\"","d","\"",",","\"","a","m","o","u","n","t","\"",":","\"",
      "7","\"","}","]","}">>

\* {"transaction information":[]}
TxEmptyCompletion ==
    <<"{","\"","t","r","a","n","s","a","c","t","i","o","n"," ","i","n","f",
      "o","r","m","a","t","i","o","n","\"",":","[","]","}">>

\* {"transaction information":"none","total amount due":40}
TxStringCompletion ==
    <<"{","\"","t","r","a","n","s","a","c","t","i","o","n"," ","i","n","f",
      "o","r","m","a","t","i","o","n","\"",":","\"","n","o","n","e","\"",
      ",","\"","t","o","t","a","l"," ","a","m","o","u","n","t"," ","d","u",
      "e","\"",":","4","0","}">>

\* {"transaction information":[{"amount":-5,"type (credit/debit)":"debit"},
\*  {"amount":" inf","type (credit/debit)":"credit"},
\*  {"amount":NaN,"type (credit/debit)":"debit"},
\*  {"amount":"\u0661\u0662","type (credit/debit)":"debit"}]}
\* the last amount being 12 in Arabic-Indic digits
TxSignedCompletion ==
    <<"{","\"","t","r","a","n","s","a","c","t","i","o","n"," ","i","n","f",
      "o","r","m","a","t","i","o","n","\"",":","[","{","\"","a","m","o","u",
      "n","t","\"",":","-","5",",","\"","t","y","p","e"," ","(","c","r","e",
      "d","i","t","/","d","e","b","i","t",")","\"",":","\"","d","e","b","i",
      "t","\"","}",",","{","\"","a","m","o","u","n","t","\"",":","\""," ",
      "i","n","f","\"",",","\"","t","y","p","e"," ","(","c","r","e","d","i",
      "t","/","d","e","b","i","t",")","\"",":","\"","c","r","e","d","i","t",
      "\"","}",",","{","\"","a","m","o","u","n","t","\"",":","N","a","N",",",
      "\"","t","y","p","e"," ","(","c","r","e","d","i","t","/","d","e","b",
      "i","t",")","\"",":","\"","d","e","b","i","t","\"","}",",","{","\"",
      "a","m","o","u","n","t","\"",":","\"","\\u0661","\\u0662","\"",",",
      "\"","t","y","p","e"," ","(","c","r","e","d","i","t","/","d","e","b",
      "i","t",")","\"",":","\"","d","e","b","i","t","\"","}","]","}">>

\* Sure: {"customer name":"om","total amount due":120} ok
SummaryCompletion ==
    <<"S","u","r","e",":"," ","{","\"","c","u","s","t","o","m","e","r"," ",
      "n","a","m","e","\"",":","\"","o","m","\"",",","\"","t","o","t","a",
      "l"," ","a","m","o","u","n","t"," ","d","u","e","\"",":","1","2","0",
      "}"," ","o","k">>

\* no data
ProseCompletion ==
    <<"n","o"," ","d","a","t","a">>

SampleCompletions ==
    {TxCompletion, TxNoTypeCompletion, TxEmptyCompletion, TxStringCompletion,
     TxSignedCompletion, SummaryCompletion, ProseCompletion}

\* what completion.choices[0].message.content can be
Completions(f) ==
    CASE f = "recon" -> FragTexts(MaxFrags) \cup {None}
      [] f = "trunc" -> SampleCompletions
      [] f = "fields" -> {SummaryCompletion, ProseCompletion}
      [] OTHER -> {ProseCompletion}

\* a body of n characters: letters only or digits only
Body(kind, n) == [i \in 1..n |-> IF kind = "letters" THEN "a" ELSE "7"]

\* n characters of whitespace, among them a vertical tab and a no-break space
Pad(n) ==
    [i \in 1..n |->
        CASE i % 4 = 1 -> " " [] i % 4 = 2 -> "\\xa0" [] i % 4 = 3 -> "\n"
          [] OTHER -> "\\x0b"]

NormTexts ==
    {Pad(pad) \o Body(kind, n) \o Pad(pad) :
        pad \in {0, PadLen},
        kind \in {"letters", "digits"},
        n \in {0, Threshold - 1, Threshold, Threshold + 10}}

LongTexts == {Rep("a", n) \o <<"b", "c">> : n \in (Limit - 3)..(Limit - 1)}

ShortPage == Body("letters", Threshold)

\* what page.extract_text() can return
PageTexts(f) ==
    CASE f = "norm" -> NormTexts \cup {None}
      [] f = "trunc" -> LongTexts
      [] OTHER -> {ShortPage}

\* what pytesseract.image_to_string can return
OcrOutputs == {<<>>, <<"o", "c", "r", "\n">>}

AllChecked == [f \in FieldNames |-> TRUE]

\* the values the ten checkboxes can return
CheckboxChoices(f) ==
    CASE f = "fields" -> [FieldNames -> BOOLEAN]
      [] f = "trunc" ->
           {AllChecked, [AllChecked EXCEPT !["transaction information"] = FALSE]}
      [] OTHER -> {AllChecked}

\* what os.getenv("GROQ_API_KEY") can return
KeyValues == {None, <<>>, <<"g", "s", "k">>}

PageCounts(f) == IF f = "norm" THEN 0..MaxPages ELSE 0..1

----------------------------------------------------------------------------
(* Helpers of the script *)

\* "groq_key is None" in place of "not groq_key"
TruthyNotNone(s) == s # None

\* truth value of a string or None
Truthy(s) == s # None /\ s # <<>>

\* [f for f, v in {...}.items() if v]
RECURSIVE SelectFrom(_, _)
SelectFrom(order, boxes) ==
    IF order = <<>> THEN <<>>
    ELSE IF boxes[Head(order)]
         THEN <<Head(order)>> \o SelectFrom(Tail(order), boxes)
         ELSE SelectFrom(Tail(order), boxes)

\* the length comparison turned around
NeedsOcrInverted(t) == t = None \/ t = <<>> \/ Len(Strip(t)) > Threshold

\* the condition of the OCR branch: not t or len(t.strip()) < 40
NeedsOcr(t) == ~Truthy(t) \/ Len(Strip(t)) < Threshold

Emit(kind, body) == Append(ui, [kind |-> kind, body |-> body])

----------------------------------------------------------------------------
(* The script *)

Init ==
    /\ groq_key \in KeyValues
    /\ focus \in Focuses
    /\ extract_btn \in BOOLEAN
    /\ uploaded_file \in
         {[present |-> FALSE, npages |-> 0]}
         \cup {[present |-> TRUE, npages |-> n] : n \in PageCounts(focus)}
    /\ checkboxes = AllChecked
    /\ pc = "start"
    /\ client = FALSE
    /\ selected_fields = <<>>
    /\ page_idx = 0
    /\ texts = <<>>
    /\ page_log = <<>>
    /\ pdf_text = <<>>
    /\ prompt = [fields |-> <<>>, statement |-> <<>>]
    /\ messages = <<>>
    /\ llm_calls = 0
    /\ llm_outcome = "none"
    /\ response_text = None
    /\ parse_failed = FALSE
    /\ result = <<>>
    /\ tx_df = [defined |-> FALSE, rows |-> <<>>]
    /\ ui = <<>>

\* lines 117-122: the page header
Header ==
    /\ pc = "start"
    /\ ui' = Emit("markdown", "header")
    /\ pc' = "verify_key"
    /\ UNCHANGED <<groq_key, checkboxes, extract_btn, uploaded_file, focus,
                   client, selected_fields, page_idx, texts, page_log,
                   pdf_text, prompt, messages, llm_calls, llm_outcome,
                   response_text, parse_failed, result, tx_df>>

\* if not groq_key: st.error(...); st.stop()
VerifyKeyMissing ==
    /\ pc = "verify_key"
    /\ ~Truthy(groq_key)
    /\ ui' = Emit("error", "GROQ_API_KEY missing")
    /\ pc' = "stopped"
    /\ UNCHANGED <<groq_key, checkboxes, extract_btn, uploaded_file, focus,
                   client, selected_fields, page_idx, texts, page_log,
                   pdf_text, prompt, messages, llm_calls, llm_outcome,
                   response_text, parse_failed, result, tx_df>>

\* client = OpenAI(...)
CreateClient ==
    /\ pc = "verify_key"
    /\ Truthy(groq_key)
    /\ client' = TRUE
    /\ pc' = "sidebar"
    /\ UNCHANGED <<groq_key, checkboxes, extract_btn, uploaded_file, focus,
                   selected_fields, page_idx, texts, page_log,
                   pdf_text, prompt, messages, llm_calls, llm_outcome,
                   response_text, parse_failed, result, tx_df, ui>>

\* the sidebar checkboxes and selected_fields
Sidebar ==
    /\ pc = "sidebar"
    /\ \E boxes \in CheckboxChoices(focus) :
         /\ checkboxes' = boxes
         /\ selected_fields' = SelectFrom(FieldOrder, boxes)
    /\ pc' = "main"
    /\ UNCHANGED <<groq_key, extract_btn, uploaded_file, focus, client,
                   page_idx, texts, page_log, pdf_text, prompt, messages,
                   llm_calls, llm_outcome, response_text, parse_failed,
                   result, tx_df, ui>>

\* if extract_btn and uploaded_file: taken
StartWorkflow ==
    /\ pc = "main"
    /\ extract_btn /\ uploaded_file.present
    /\ pc' = "extract"
    /\ UNCHANGED <<groq_key, checkboxes, extract_btn, uploaded_file, focus,
                   client, selected_fields, page_idx, texts, page_log,
                   pdf_text, prompt, messages, llm_calls, llm_outcome,
                   response_text, parse_failed, result, tx_df, ui>>

\* if extract_btn and uploaded_file: not taken
SkipWorkflow ==
    /\ pc = "main"
    /\ ~(extract_btn /\ uploaded_file.present)
    /\ pc' = "footer"
    /\ UNCHANGED <<groq_key, checkboxes, extract_btn, uploaded_file, focus,
                   client, selected_fields, page_idx, texts, page_log,
                   pdf_text, prompt, messages, llm_calls, llm_outcome,
                   response_text, parse_failed, result, tx_df, ui>>

\* one iteration of the loop of extract_text_from_pdf
ExtractPage ==
    /\ pc = "extract"
    /\ page_idx < uploaded_file.npages
    /\ \E t \in PageTexts(focus) :
         IF NeedsOcr(t)
         THEN \E o \in OcrOutputs :
                /\ texts' = Append(texts, o)
                /\ page_log' = Append(page_log,
                      [layer |-> t, rendered |-> TRUE, ocr |-> TRUE,
                       ocr_out |-> o])
         ELSE /\ texts' = Append(texts, t)
              /\ page_log' = Append(page_log,
                    [layer |-> t, rendered |-> FALSE, ocr |-> FALSE,
                     ocr_out |-> None])
    /\ page_idx' = page_idx + 1
    /\ UNCHANGED <<groq_key, checkboxes, extract_btn, uploaded_file, focus,
                   pc, client, selected_fields, pdf_text, prompt, messages,
                   llm_calls, llm_outcome, response_text, parse_failed,
                   result, tx_df, ui>>

\* pdfplumber or pytesseract raises: nothing catches it
ExtractRaises ==
    /\ pc = "extract"
    /\ pc' = "crashed"
    /\ UNCHANGED <<groq_key, checkboxes, extract_btn, uploaded_file, focus,
                   client, selected_fields, page_idx, texts, page_log,
                   pdf_text, prompt, messages, llm_calls, llm_outcome,
                   response_text, parse_failed, result, tx_df, ui>>

\* return "\n".join(texts)
ExtractReturn ==
    /\ pc = "extract"
    /\ page_idx = uploaded_file.npages
    /\ pdf_text' = Join(<<"\n">>, texts)
    /\ pc' = "preview"
    /\ UNCHANGED <<groq_key, checkboxes, extract_btn, uploaded_file, focus,
                   client, selected_fields, page_idx, texts, page_log,
                   prompt, messages, llm_calls, llm_outcome,
                   response_text, parse_failed, result, tx_df, ui>>

\* st.image(pdf.pages[0]...): IndexError on a PDF without pages
Preview ==
    /\ pc = "preview"
    /\ IF uploaded_file.npages = 0
       THEN pc' = "crashed" /\ ui' = ui
       ELSE pc' = "prompt" /\ ui' = Emit("image", "Preview of Page 1")
    /\ UNCHANGED <<groq_key, checkboxes, extract_btn, uploaded_file, focus,
                   client, selected_fields, page_idx, texts, page_log,
                   pdf_text, prompt, messages, llm_calls, llm_outcome,
                   response_text, parse_failed, result, tx_df>>

\* the second pdfplumber.open or to_image(resolution=200) raises: nothing
\* catches it
PreviewRaises ==
    /\ pc = "preview"
    /\ pc' = "crashed"
    /\ UNCHANGED <<groq_key, checkboxes, extract_btn, uploaded_file, focus,
                   client, selected_fields, page_idx, texts, page_log,
                   pdf_text, prompt, messages, llm_calls, llm_outcome,
                   response_text, parse_failed, result, tx_df, ui>>

\* prompt = f"""...{', '.join(selected_fields)}...{pdf_text[:7000]}"""
BuildPrompt ==
    /\ pc = "prompt"
    /\ prompt' = [fields |-> Join(<<", ">>,
                                  [i \in 1..Len(selected_fields) |->
                                      <<selected_fields[i]>>]),
                  statement |-> Prefix(pdf_text, Limit)]
    /\ pc' = "query"
    /\ UNCHANGED <<groq_key, checkboxes, extract_btn, uploaded_file, focus,
                   client, selected_fields, page_idx, texts, page_log,
                   pdf_text, messages, llm_calls, llm_outcome,
                   response_text, parse_failed, result, tx_df, ui>>

\* response_text = query_groq(prompt), the call returns
QueryGroq ==
    /\ pc = "query"
    /\ messages' = Append(messages, [role |-> "user", content |-> prompt])
    /\ llm_calls' = llm_calls + 1
    /\ llm_outcome' = "returned"
    /\ \E r \in Completions(focus) : response_text' = r
    /\ pc' = "parse"
    /\ UNCHANGED <<groq_key, checkboxes, extract_btn, uploaded_file, focus,
                   client, selected_fields, page_idx, texts, page_log,
                   pdf_text, prompt, parse_failed, result, tx_df, ui>>

\* the except branch without st.stop(): the script goes on
QueryGroqRaisesNoStop ==
    /\ pc = "query"
    /\ messages' = Append(messages, [role |-> "user", content |-> prompt])
    /\ llm_calls' = llm_calls + 1
    /\ llm_outcome' = "raised"
    /\ ui' = Emit("error", "Groq API Error")
    /\ pc' = "parse"
    /\ UNCHANGED <<groq_key, checkboxes, extract_btn, uploaded_file, focus,
                   client, selected_fields, page_idx, texts, page_log,
                   pdf_text, prompt, response_text, parse_failed, result,
                   tx_df>>

\* the except branch calling query_groq again
QueryGroqRaisesRetry ==
    /\ pc = "query"
    /\ messages' = Append(messages, [role |-> "user", content |-> prompt])
    /\ llm_calls' = llm_calls + 1
    /\ llm_outcome' = "raised"
    /\ ui' = Emit("error", "Groq API Error")
    /\ pc' = "query"
    /\ UNCHANGED <<groq_key, checkboxes, extract_btn, uploaded_file, focus,
                   client, selected_fields, page_idx, texts, page_log,
                   pdf_text, prompt, response_text, parse_failed, result,
                   tx_df>>

\* query_groq raises: except Exception as e: st.error(...); st.stop()
QueryGroqRaises ==
    /\ pc = "query"
    /\ messages' = Append(messages, [role |-> "user", content |-> prompt])
    /\ llm_calls' = llm_calls + 1
    /\ llm_outcome' = "raised"
    /\ ui' = Emit("error", "Groq API Error")
    /\ pc' = "stopped"
    /\ UNCHANGED <<groq_key, checkboxes, extract_btn, uploaded_file, focus,
                   client, selected_fields, page_idx, texts, page_log,
                   pdf_text, prompt, response_text, parse_failed, result,
                   tx_df>>

\* a Python str or None as a value
PyStr(text) == IF text = None THEN [lit |-> "null"] ELSE [str |-> text]

\* {"raw_output": response_text}
RawMapping(text) == RawKey :> PyStr(text)

\* lines 228-232: [failed, value] of the try block on response_text
ParseResponse(text) ==
    IF text = None \/ ~HasChar(text, "{")
    THEN [failed |-> TRUE, value |-> <<>>]
    ELSE LET json_part == RsplitBeforeLast(SplitAfterFirst(text, "{"), "}")
             r == JsonLoads(<<"{">> \o json_part \o <<"}">>)
         IN  IF r.ok THEN [failed |-> FALSE, value |-> r.val.obj]
             ELSE [failed |-> TRUE, value |-> <<>>]

\* the JSON step without its try/except: a failure ends the run
ReconcileNoCatch ==
    /\ pc = "parse"
    /\ LET p == ParseResponse(response_text)
       IN  /\ parse_failed' = p.failed
           /\ result' = p.value
           /\ pc' = IF p.failed THEN "crashed" ELSE "display"
    /\ UNCHANGED <<groq_key, checkboxes, extract_btn, uploaded_file, focus,
                   client, selected_fields, page_idx, texts, page_log,
                   pdf_text, prompt, messages, llm_calls, llm_outcome,
                   response_text, tx_df, ui>>

\* try: ... result = json.loads(...)  except Exception: result = {...}
Reconcile ==
    /\ pc = "parse"
    /\ LET p == ParseResponse(response_text)
       IN  /\ parse_failed' = p.failed
           /\ result' = IF p.failed THEN RawMapping(response_text) ELSE p.value
    /\ pc' = "display"
    /\ UNCHANGED <<groq_key, checkboxes, extract_btn, uploaded_file, focus,
                   client, selected_fields, page_idx, texts, page_log,
                   pdf_text, prompt, messages, llm_calls, llm_outcome,
                   response_text, tx_df, ui>>

(* pandas, for a list of dicts (the lists of this model hold dicts only) *)

NaN == [lit |-> "nan"]

IsDict(v) == "obj" \in DOMAIN v

IsList(v) == "arr" \in DOMAIN v

\* the DataFrame has column k when some row has the key
HasColumn(rows, k) ==
    \E i \in 1..Len(rows) : IsDict(rows[i]) /\ k \in DOMAIN rows[i].obj

\* tx_df[k] at one row; a missing key is NaN
Cell(row, k) ==
    IF IsDict(row) /\ k \in DOMAIN row.obj THEN row.obj[k] ELSE NaN

\* the letters of inf, infinity and nan, which float() reads in any case
LowerChar(c) ==
    CASE c = "I" -> "i" [] c = "N" -> "n" [] c = "F" -> "f"
      [] c = "T" -> "t" [] c = "Y" -> "y" [] c = "A" -> "a"
      [] OTHER -> c

\* the decimal digits float() reads: the characters of Unicode category Nd
\* (Unicode 14.0.0), one row per script, a row running from its zero to its nine
DecimalDigits ==
    <<
      <<"0","1","2","3","4","5","6","7","8","9">>,
      <<"\\u0660","\\u0661","\\u0662","\\u0663","\\u0664",
        "\\u0665","\\u0666","\\u0667","\\u0668","\\u0669">>,
      <<"\\u06f0","\\u06f1","\\u06f2","\\u06f3","\\u06f4",
        "\\u06f5","\\u06f6","\\u06f7","\\u06f8","\\u06f9">>,
      <<"\\u07c0","\\u07c1","\\u07c2","\\u07c3","\\u07c4",
        "\\u07c5","\\u07c6","\\u07c7","\\u07c8","\\u07c9">>,
      <<"\\u0966","\\u0967","\\u0968","\\u0969","\\u096a",
        "\\u096b","\\u096c","\\u096d","\\u096e","\\u096f">>,
      <<"\\u09e6","\\u09e7","\\u09e8","\\u09e9","\\u09ea",
        "\\u09eb","\\u09ec","\\u09ed","\\u09ee","\\u09ef">>,
      <<"\\u0a66","\\u0a67","\\u0a68","\\u0a69","\\u0a6a",
        "\\u0a6b","\\u0a6c","\\u0a6d","\\u0a6e","\\u0a6f">>,
      <<"\\u0ae6","\\u0ae7","\\u0ae8","\\u0ae9","\\u0aea",
        "\\u0aeb","\\u0aec","\\u0aed","\\u0aee","\\u0aef">>,
      <<"\\u0b66","\\u0b67","\\u0b68","\\u0b69","\\u0b6a",
        "\\u0b6b","\\u0b6c","\\u0b6d","\\u0b6e","\\u0b6f">>,
      <<"\\u0be6","\\u0be7","\\u0be8","\\u0be9","\\u0bea",
        "\\u0beb","\\u0bec","\\u0bed","\\u0bee","\\u0bef">>,
      <<"\\u0c66","\\u0c67","\\u0c68","\\u0c69","\\u0c6a",
        "\\u0c6b","\\u0c6c","\\u0c6d","\\u0c6e","\\u0c6f">>,
      <<"\\u0ce6","\\u0ce7","\\u0ce8","\\u0ce9","\\u0cea",
        "\\u0ceb","\\u0cec","\\u0ced","\\u0cee","\\u0cef">>,
      <<"\\u0d66","\\u0d67","\\u0d68","\\u0d69","\\u0d6a",
        "\\u0d6b","\\u0d6c","\\u0d6d","\\u0d6e","\\u0d6f">>,
      <<"\\u0de6","\\u0de7","\\u0de8","\\u0de9","\\u0dea",
        "\\u0deb","\\u0dec","\\u0ded","\\u0dee","\\u0def">>,
      <<"\\u0e50","\\u0e51","\\u0e52","\\u0e53","\\u0e54",
        "\\u0e55","\\u0e56","\\u0e57","\\u0e58","\\u0e59">>,
      <<"\\u0ed0","\\u0ed1","\\u0ed2","\\u0ed3","\\u0ed4",
        "\\u0ed5","\\u0ed6","\\u0ed7","\\u0ed8","\\u0ed9">>,
      <<"\\u0f20","\\u0f21","\\u0f22","\\u0f23","\\u0f24",
        "\\u0f25","\\u0f26","\\u0f27","\\u0f28","\\u0f29">>,
      <<"\\u1040","\\u1041","\\u1042","\\u1043","\\u1044",
        "\\u1045","\\u1046","\\u1047","\\u1048","\\u1049">>,
      <<"\\u1090","\\u1091","\\u1092","\\u1093","\\u1094",
        "\\u1095","\\u1096","\\u1097","\\u1098","\\u1099">>,
      <<"\\u17e0","\\u17e1","\\u17e2","\\u17e3","\\u17e4",
        "\\u17e5","\\u17e6","\\u17e7","\\u17e8","\\u17e9">>,
      <<"\\u1810","\\u1811","\\u1812","\\u1813","\\u1814",
        "\\u1815","\\u1816","\\u1817","\\u1818","\\u1819">>,
      <<"\\u1946","\\u1947","\\u1948","\\u1949","\\u194a",
        "\\u194b","\\u194c","\\u194d","\\u194e","\\u194f">>,
      <<"\\u19d0","\\u19d1","\\u19d2","\\u19d3","\\u19d4",
        "\\u19d5","\\u19d6","\\u19d7","\\u19d8","\\u19d9">>,
      <<"\\u1a80","\\u1a81","\\u1a82","\\u1a83","\\u1a84",
        "\\u1a85","\\u1a86","\\u1a87","\\u1a88","\\u1a89">>,
      <<"\\u1a90","\\u1a91","\\u1a92","\\u1a93","\\u1a94",
        "\\u1a95","\\u1a96","\\u1a97","\\u1a98","\\u1a99">>,
      <<"\\u1b50","\\u1b51","\\u1b52","\\u1b53","\\u1b54",
        "\\u1b55","\\u1b56","\\u1b57","\\u1b58","\\u1b59">>,
      <<"\\u1bb0","\\u1bb1","\\u1bb2","\\u1bb3","\\u1bb4",
        "\\u1bb5","\\u1bb6","\\u1bb7","\\u1bb8","\\u1bb9">>,
      <<"\\u1c40","\\u1c41","\\u1c42","\\u1c43","\\u1c44",
        "\\u1c45","\\u1c46","\\u1c47","\\u1c48","\\u1c49">>,
      <<"\\u1c50","\\u1c51","\\u1c52","\\u1c53","\\u1c54",
        "\\u1c55","\\u1c56","\\u1c57","\\u1c58","\\u1c59">>,
      <<"\\ua620","\\ua621","\\ua622","\\ua623","\\ua624",
        "\\ua625","\\ua626","\\ua627","\\ua628","\\ua629">>,
      <<"\\ua8d0","\\ua8d1","\\ua8d2","\\ua8d3","\\ua8d4",
        "\\ua8d5","\\ua8d6","\\ua8d7","\\ua8d8","\\ua8d9">>,
      <<"\\ua900","\\ua901","\\ua902","\\ua903","\\ua904",
        "\\ua905","\\ua906","\\ua907","\\ua908","\\ua909">>,
      <<"\\ua9d0","\\ua9d1","\\ua9d2","\\ua9d3","\\ua9d4",
        "\\ua9d5","\\ua9d6","\\ua9d7","\\ua9d8","\\ua9d9">>,
      <<"\\ua9f0","\\ua9f1","\\ua9f2","\\ua9f3","\\ua9f4",
        "\\ua9f5","\\ua9f6","\\ua9f7","\\ua9f8","\\ua9f9">>,
      <<"\\uaa50","\\uaa51","\\uaa52","\\uaa53","\\uaa54",
        "\\uaa55","\\uaa56","\\uaa57","\\uaa58","\\uaa59">>,
      <<"\\uabf0","\\uabf1","\\uabf2","\\uabf3","\\uabf4",
        "\\uabf5","\\uabf6","\\uabf7","\\uabf8","\\uabf9">>,
      <<"\\uff10","\\uff11","\\uff12","\\uff13","\\uff14",
        "\\uff15","\\uff16","\\uff17","\\uff18","\\uff19">>,
      <<"\\U000104a0","\\U000104a1","\\U000104a2","\\U000104a3","\\U000104a4",
        "\\U000104a5","\\U000104a6","\\U000104a7","\\U000104a8","\\U000104a9">>,
      <<"\\U00010d30","\\U00010d31","\\U00010d32","\\U00010d33","\\U00010d34",
        "\\U00010d35","\\U00010d36","\\U00010d37","\\U00010d38","\\U00010d39">>,
      <<"\\U00011066","\\U00011067","\\U00011068","\\U00011069","\\U0001106a",
        "\\U0001106b","\\U0001106c","\\U0001106d","\\U0001106e","\\U0001106f">>,
      <<"\\U000110f0","\\U000110f1","\\U000110f2","\\U000110f3","\\U000110f4",
        "\\U000110f5","\\U000110f6","\\U000110f7","\\U000110f8","\\U000110f9">>,
      <<"\\U00011136","\\U00011137","\\U00011138","\\U00011139","\\U0001113a",
        "\\U0001113b","\\U0001113c","\\U0001113d","\\U0001113e","\\U0001113f">>,
      <<"\\U000111d0","\\U000111d1","\\U000111d2","\\U000111d3","\\U000111d4",
        "\\U000111d5","\\U000111d6","\\U000111d7","\\U000111d8","\\U000111d9">>,
      <<"\\U000112f0","\\U000112f1","\\U000112f2","\\U000112f3","\\U000112f4",
        "\\U000112f5","\\U000112f6","\\U000112f7","\\U000112f8","\\U000112f9">>,
      <<"\\U00011450","\\U00011451","\\U00011452","\\U00011453","\\U00011454",
        "\\U00011455","\\U00011456","\\U00011457","\\U00011458","\\U00011459">>,
      <<"\\U000114d0","\\U000114d1","\\U000114d2","\\U000114d3","\\U000114d4",
        "\\U000114d5","\\U000114d6","\\U000114d7","\\U000114d8","\\U000114d9">>,
      <<"\\U00011650","\\U00011651","\\U00011652","\\U00011653","\\U00011654",
        "\\U00011655","\\U00011656","\\U00011657","\\U00011658","\\U00011659">>,
      <<"\\U000116c0","\\U000116c1","\\U000116c2","\\U000116c3","\\U000116c4",
        "\\U000116c5","\\U000116c6","\\U000116c7","\\U000116c8","\\U000116c9">>,
      <<"\\U00011730","\\U00011731","\\U00011732","\\U00011733","\\U00011734",
        "\\U00011735","\\U00011736","\\U00011737","\\U00011738","\\U00011739">>,
      <<"\\U000118e0","\\U000118e1","\\U000118e2","\\U000118e3","\\U000118e4",
        "\\U000118e5","\\U000118e6","\\U000118e7","\\U000118e8","\\U000118e9">>,
      <<"\\U00011950","\\U00011951","\\U00011952","\\U00011953","\\U00011954",
        "\\U00011955","\\U00011956","\\U00011957","\\U00011958","\\U00011959">>,
      <<"\\U00011c50","\\U00011c51","\\U00011c52","\\U00011c53","\\U00011c54",
        "\\U00011c55","\\U00011c56","\\U00011c57","\\U00011c58","\\U00011c59">>,
      <<"\\U00011d50","\\U00011d51","\\U00011d52","\\U00011d53","\\U00011d54",
        "\\U00011d55","\\U00011d56","\\U00011d57","\\U00011d58","\\U00011d59">>,
      <<"\\U00011da0","\\U00011da1","\\U00011da2","\\U00011da3","\\U00011da4",
        "\\U00011da5","\\U00011da6","\\U00011da7","\\U00011da8","\\U00011da9">>,
      <<"\\U00016a60","\\U00016a61","\\U00016a62","\\U00016a63","\\U00016a64",
        "\\U00016a65","\\U00016a66","\\U00016a67","\\U00016a68","\\U00016a69">>,
      <<"\\U00016ac0","\\U00016ac1","\\U00016ac2","\\U00016ac3","\\U00016ac4",
        "\\U00016ac5","\\U00016ac6","\\U00016ac7","\\U00016ac8","\\U00016ac9">>,
      <<"\\U00016b50","\\U00016b51","\\U00016b52","\\U00016b53","\\U00016b54",
        "\\U00016b55","\\U00016b56","\\U00016b57","\\U00016b58","\\U00016b59">>,
      <<"\\U0001d7ce","\\U0001d7cf","\\U0001d7d0","\\U0001d7d1","\\U0001d7d2",
        "\\U0001d7d3","\\U0001d7d4","\\U0001d7d5","\\U0001d7d6","\\U0001d7d7">>,
      <<"\\U0001d7d8","\\U0001d7d9","\\U0001d7da","\\U0001d7db","\\U0001d7dc",
        "\\U0001d7dd","\\U0001d7de","\\U0001d7df","\\U0001d7e0","\\U0001d7e1">>,
      <<"\\U0001d7e2","\\U0001d7e3","\\U0001d7e4","\\U0001d7e5","\\U0001d7e6",
        "\\U0001d7e7","\\U0001d7e8","\\U0001d7e9","\\U0001d7ea","\\U0001d7eb">>,
      <<"\\U0001d7ec","\\U0001d7ed","\\U0001d7ee","\\U0001d7ef","\\U0001d7f0",
        "\\U0001d7f1","\\U0001d7f2","\\U0001d7f3","\\U0001d7f4","\\U0001d7f5">>,
      <<"\\U0001d7f6","\\U0001d7f7","\\U0001d7f8","\\U0001d7f9","\\U0001d7fa",
        "\\U0001d7fb","\\U0001d7fc","\\U0001d7fd","\\U0001d7fe","\\U0001d7ff">>,
      <<"\\U0001e140","\\U0001e141","\\U0001e142","\\U0001e143","\\U0001e144",
        "\\U0001e145","\\U0001e146","\\U0001e147","\\U0001e148","\\U0001e149">>,
      <<"\\U0001e2f0","\\U0001e2f1","\\U0001e2f2","\\U0001e2f3","\\U0001e2f4",
        "\\U0001e2f5","\\U0001e2f6","\\U0001e2f7","\\U0001e2f8","\\U0001e2f9">>,
      <<"\\U0001e950","\\U0001e951","\\U0001e952","\\U0001e953","\\U0001e954",
        "\\U0001e955","\\U0001e956","\\U0001e957","\\U0001e958","\\U0001e959">>,
      <<"\\U0001fbf0","\\U0001fbf1","\\U0001fbf2","\\U0001fbf3","\\U0001fbf4",
        "\\U0001fbf5","\\U0001fbf6","\\U0001fbf7","\\U0001fbf8","\\U0001fbf9">>
    >>

FloatDigits == {DecimalDigits[r][d] : r \in DOMAIN DecimalDigits, d \in 1..10}

\* Py_UNICODE_TODECIMAL
DecimalValue(c) ==
    (CHOOSE d \in 1..10 : \E r \in DOMAIN DecimalDigits : DecimalDigits[r][d] = c)
    - 1

\* digits, with single underscores between them
RECURSIVE IsDigitString(_)
IsDigitString(t) ==
    /\ Len(t) > 0
    /\ t[1] \in FloatDigits
    /\ \/ Len(t) = 1
       \/ IsDigitString(Tail(t))
       \/ Len(t) > 2 /\ t[2] = "_" /\ IsDigitString(Tail(Tail(t)))

\* the value of a sequence of decimal digits, acc holding the digits read
RECURSIVE DecimalNumber(_, _)
DecimalNumber(t, acc) ==
    IF t = <<>> THEN acc
    ELSE DecimalNumber(Tail(t), 10 * acc + DecimalValue(Head(t)))

\* the whitespace float() skips around a number: that of str.strip()
\* without the four separators \x1c to \x1f
FloatSpace == StripSpace \ {"\\x1c", "\\x1d", "\\x1e", "\\x1f"}

\* float(t) for a string without fraction or exponent: whitespace is
\* skipped, then a sign and decimal digits of any script, inf, infinity or
\* nan are read
FloatOfString(t) ==
    LET u == SubSeq(t, FirstKept(t, 1, FloatSpace),
                    LastKept(t, Len(t), FloatSpace))
        signed == Len(u) > 0 /\ u[1] \in {"+", "-"}
        neg == signed /\ u[1] = "-"
        body == IF signed THEN Tail(u) ELSE u
        word == [i \in 1..Len(body) |-> LowerChar(body[i])]
        digits == SelectSeq(body, LAMBDA c : c # "_")
    IN  CASE word \in {<<"i","n","f">>, <<"i","n","f","i","n","i","t","y">>} ->
               [ok |-> TRUE,
                val |-> [lit |-> IF neg THEN "-inf" ELSE "inf"]]
          [] word = <<"n","a","n">> -> [ok |-> TRUE, val |-> [lit |-> "nan"]]
          [] IsDigitString(body) ->
               LET n == DecimalNumber(digits, 0)
               IN  [ok |-> TRUE, val |-> [num |-> IF neg THEN 0 - n ELSE n]]
          [] OTHER -> [ok |-> FALSE, val |-> [lit |-> "nan"]]

\* astype(float) on one cell
ToFloat(v) ==
    CASE "num" \in DOMAIN v -> [ok |-> TRUE, val |-> v]
      [] "str" \in DOMAIN v -> FloatOfString(v.str)
      [] "lit" \in DOMAIN v /\ v.lit \in {"null", "nan"} ->
           [ok |-> TRUE, val |-> NaN]
      [] "lit" \in DOMAIN v /\ v.lit \in {"inf", "-inf"} ->
           [ok |-> TRUE, val |-> v]
      [] "lit" \in DOMAIN v /\ v.lit = "true" -> [ok |-> TRUE, val |-> [num |-> 1]]
      [] "lit" \in DOMAIN v /\ v.lit = "false" -> [ok |-> TRUE, val |-> [num |-> 0]]
      [] OTHER -> [ok |-> FALSE, val |-> NaN]

\* sum of the finite amounts of the rows
RECURSIVE SumNums(_)
SumNums(cells) ==
    IF cells = <<>> THEN 0
    ELSE (IF "num" \in DOMAIN Head(cells) THEN Head(cells).num ELSE 0)
         + SumNums(Tail(cells))

\* tx_df[tx_df[TypeKey] == kind]['amount'].sum(): NaN is skipped, an
\* infinite amount makes the sum infinite, both infinities make it NaN
SumWhere(rows, kind) ==
    LET picked == SelectSeq(rows,
                      LAMBDA r : Cell(r, TypeKey) = [str |-> kind])
        cells == [i \in 1..Len(picked) |-> Cell(picked[i], AmountKey)]
        has(x) == \E i \in 1..Len(cells) : cells[i] = [lit |-> x]
    IN  CASE has("inf") /\ has("-inf") -> NaN
          [] has("inf") -> [lit |-> "inf"]
          [] has("-inf") -> [lit |-> "-inf"]
          [] OTHER -> [num |-> SumNums(cells)]

\* lines 251-258: [rows, writes] of the analytics try block; any exception
\* ends the block silently
Analytics(rows) ==
    IF ~HasColumn(rows, AmountKey)
       \/ \E i \in 1..Len(rows) : ~ToFloat(Cell(rows[i], AmountKey)).ok
    THEN [rows |-> rows, writes |-> <<>>]
    ELSE LET rows2 == [i \in 1..Len(rows) |->
                         [obj |-> (AmountKey :>
                                     ToFloat(Cell(rows[i], AmountKey)).val)
                                  @@ rows[i].obj]]
             first == <<[kind |-> "markdown", body |-> "Transaction Summary"],
                        [kind |-> "write",
                         body |-> [label |-> "Total Transactions",
                                   value |-> Len(rows2)]]>>
         IN  IF ~HasColumn(rows2, TypeKey)
             THEN [rows |-> rows2, writes |-> first]
             ELSE [rows |-> rows2,
                   writes |-> first \o
                     <<[kind |-> "write",
                        body |-> [label |-> "Total Spend",
                                  value |-> SumWhere(rows2, Debit)]],
                       [kind |-> "write",
                        body |-> [label |-> "Total Credits",
                                  value |-> SumWhere(rows2, Credit)]]>>]

\* result.pop(key, None)
Pop(m, key) == [k \in (DOMAIN m) \ {key} |-> m[k]]

\* lines 237-268
Display ==
    /\ pc = "display"
    /\ LET head == Emit("markdown", "Extracted Summary")
       IN  IF RawKey \in DOMAIN result
           THEN /\ ui' = head \o
                      <<[kind |-> "warning",
                         body |-> "Model returned unstructured data"],
                        [kind |-> "text", body |-> result[RawKey]]>>
                /\ UNCHANGED <<result, tx_df>>
           ELSE IF TxKey \in DOMAIN result /\ IsList(result[TxKey])
           THEN LET rows == result[TxKey].arr
                    an == Analytics(rows)
                    popped == Pop(result, TxKey)
                IN  /\ tx_df' = [defined |-> TRUE, rows |-> an.rows]
                    /\ result' = popped
                    /\ ui' = head \o
                          <<[kind |-> "markdown",
                             body |-> "Transaction Details"],
                            [kind |-> "dataframe", body |-> rows]>>
                          \o an.writes \o
                          <<[kind |-> "table", body |-> popped]>>
           ELSE /\ ui' = Append(head, [kind |-> "table", body |-> result])
                /\ UNCHANGED <<result, tx_df>>
    /\ pc' = "download"
    /\ UNCHANGED <<groq_key, checkboxes, extract_btn, uploaded_file, focus,
                   client, selected_fields, page_idx, texts, page_log,
                   pdf_text, prompt, messages, llm_calls, llm_outcome,
                   response_text, parse_failed>>

\* locals() at the top level of the script, at line 281: the module
\* namespace, that is the names bound so far.  json_part is bound as soon as
\* split and rsplit succeed, html in the else branch of the display, key and
\* value by the loops over a non-empty result
ScriptLocals ==
    {"__name__", "__doc__", "__package__", "__loader__", "__spec__",
     "__file__", "__builtins__",
     "io", "os", "json", "pdfplumber", "pytesseract", "Image", "pd", "st",
     "OpenAI", "load_dotenv", "datetime", "groq_key", "client", "issuer",
     "customer", "card_variant", "card_last", "bill_from", "bill_to",
     "due_date", "total_due", "min_due", "transactions", "selected_fields",
     "uploaded_file", "extract_text_from_pdf", "query_groq", "extract_btn",
     "pdf_bytes", "pdf_text", "pdf", "prompt", "response_text", "result",
     "df"}
    \cup (IF response_text # None /\ HasChar(response_text, "{")
          THEN {"json_part"} ELSE {})
    \cup (IF RawKey \in DOMAIN result THEN {} ELSE {"html"})
    \cup (IF RawKey \notin DOMAIN result /\ DOMAIN result # {}
          THEN {"key", "value"} ELSE {})
    \cup (IF tx_df.defined THEN {"tx_df"} ELSE {})

\* if "transaction information" in locals()
OffersTransactions == "transaction information" \in ScriptLocals

\* lines 273-287
Download ==
    /\ pc = "download"
    /\ LET summary == [kind |-> "download_button",
                       body |-> [label |-> "Download Summary (CSV)",
                                 data |-> <<result>>]]
           second == [kind |-> "download_button",
                      body |-> [label |-> "Download Transactions (CSV)",
                                data |-> tx_df.rows]]
       IN  IF ~OffersTransactions
           THEN ui' = Append(ui, summary) /\ pc' = "complete"
           ELSE IF tx_df.defined
           THEN ui' = ui \o <<summary, second>> /\ pc' = "complete"
           ELSE ui' = Append(ui, summary) /\ pc' = "crashed"
    /\ UNCHANGED <<groq_key, checkboxes, extract_btn, uploaded_file, focus,
                   client, selected_fields, page_idx, texts, page_log,
                   pdf_text, prompt, messages, llm_calls, llm_outcome,
                   response_text, parse_failed, result, tx_df>>

\* st.success("Extraction complete!")
Complete ==
    /\ pc = "complete"
    /\ ui' = Emit("success", "Extraction complete")
    /\ pc' = "footer"
    /\ UNCHANGED <<groq_key, checkboxes, extract_btn, uploaded_file, focus,
                   client, selected_fields, page_idx, texts, page_log,
                   pdf_text, prompt, messages, llm_calls, llm_outcome,
                   response_text, parse_failed, result, tx_df>>

\* lines 294-298: the page footer
Footer ==
    /\ pc = "footer"
    /\ ui' = Emit("markdown", "footer")
    /\ pc' = "done"
    /\ UNCHANGED <<groq_key, checkboxes, extract_btn, uploaded_file, focus,
                   client, selected_fields, page_idx, texts, page_log,
                   pdf_text, prompt, messages, llm_calls, llm_outcome,
                   response_text, parse_failed, result, tx_df>>

Next ==
    \/ Header
    \/ VerifyKeyMissing
    \/ CreateClient
    \/ Sidebar
    \/ StartWorkflow
    \/ SkipWorkflow
    \/ ExtractPage
    \/ ExtractRaises
    \/ ExtractReturn
    \/ Preview
    \/ PreviewRaises
    \/ BuildPrompt
    \/ QueryGroq
    \/ QueryGroqRaises
    \/ Reconcile
    \/ Display
    \/ Download
    \/ Complete
    \/ Footer

Spec == Init /\ [][Next]_vars

TypeOK ==
    /\ pc \in {"start", "verify_key", "sidebar", "main", "extract", "preview",
               "prompt", "query", "parse", "display", "download", "complete",
               "footer", "done", "stopped", "crashed"}
    /\ llm_calls \in 0..1
    /\ page_idx \in 0..uploaded_file.npages

----------------------------------------------------------------------------
(* Vocabulary of the properties *)

HasUi(kind, body) ==
    \E i \in 1..Len(ui) : ui[i].kind = kind /\ ui[i].body = body

HasKind(kind) == \E i \in 1..Len(ui) : ui[i].kind = kind

Downloads(label) ==
    {i \in 1..Len(ui) :
        ui[i].kind = "download_button" /\ ui[i].body.label = label}

SummaryOffered == Downloads("Download Summary (CSV)") # {}

TransactionsOffered == Downloads("Download Transactions (CSV)") # {}

TxTableShown == HasKind("dataframe")

AfterParse == {"display", "download", "complete", "footer"}

\* positions at which a well-formed JSON object starts in s
ObjectStarts(s) ==
    {i \in 1..Len(s) : s[i] = "{" /\ JSONObject(s, i + 1).ok}

\* the one object of a text that holds exactly one: its mapping and its span
TheObject(s) ==
    LET i == CHOOSE k \in ObjectStarts(s) : TRUE
        r == JSONObject(s, i + 1)
    IN  [first |-> i, last |-> r.next - 1, mapping |-> r.val.obj]

HasLetter(t) == \E i \in 1..Len(t) : t[i] \in Letters

HasLetterRun(t) ==
    \E i \in 1..(Len(t) - 2) :
        t[i] \in Letters /\ t[i + 1] \in Letters /\ t[i + 2] \in Letters

\* page p contributed the OCR output of its rendered image
ContributedOcr(p) ==
    /\ page_log[p].rendered
    /\ page_log[p].ocr
    /\ texts[p] = page_log[p].ocr_out

\* page p contributed its text layer and was neither rendered nor OCRed
ContributedLayer(p) ==
    /\ ~page_log[p].rendered
    /\ ~page_log[p].ocr
    /\ texts[p] = page_log[p].layer

----------------------------------------------------------------------------
(* Properties *)

\* C1, as stated: when the completion text holds exactly one well-formed
\* JSON object, whatever surrounds it, the JSON step sets result to the
\* parsed mapping of that object and not to the raw-output mapping.
C1_AnySurroundingText ==
    (pc = "display" /\ response_text # None
       /\ Cardinality(ObjectStarts(response_text)) = 1)
    => (~parse_failed /\ result = TheObject(response_text).mapping)

\* C1, amended: when the completion text holds exactly one well-formed JSON
\* object, no opening brace before it and no closing brace after it, the JSON
\* step sets result to the parsed mapping of that object and not to the
\* raw-output mapping.
C1_ObjectBetweenOutermostBraces ==
    (pc = "display" /\ response_text # None
       /\ Cardinality(ObjectStarts(response_text)) = 1
       /\ LET o == TheObject(response_text)
          IN  /\ \A i \in 1..(o.first - 1) : response_text[i] # "{"
              /\ \A i \in (o.last + 1)..Len(response_text) :
                    response_text[i] # "}")
    => (/\ ~parse_failed
        /\ result = TheObject(response_text).mapping
        /\ result # RawMapping(response_text))

\* a non-empty object with text on both sides was parsed
C1_Witness ==
    /\ pc = "display" /\ response_text # None
    /\ Cardinality(ObjectStarts(response_text)) = 1
    /\ LET o == TheObject(response_text)
       IN  /\ o.first > 1 /\ o.last < Len(response_text)
           /\ o.mapping # <<>>
           /\ result = o.mapping
    /\ ~parse_failed

\* C2: when the completion text holds no well-formed JSON object (an opening
\* brace without a closing one, a closing brace without an opening one, no
\* brace at all), the JSON step sets result to the mapping whose only key is
\* raw_output and whose value is the completion text.
C2_NoObjectGivesRawOutput ==
    (pc = "display" /\ response_text # None
       /\ ObjectStarts(response_text) = {})
    => (parse_failed /\ result = RawMapping(response_text))

\* C3: every page whose text layer is empty, is shorter than the
\* threshold once stripped, or has no run of three letters contributes the
\* OCR output of its rendered image.
C3_UnreadableIncludesNoLetterRun ==
    \A p \in 1..Len(page_log) :
        LET t == page_log[p].layer
        IN  (t = None \/ t = <<>> \/ Len(Strip(t)) < Threshold
               \/ ~HasLetterRun(t))
            => ContributedOcr(p)

\* C4, as stated: every page whose text layer has at least 50 characters and
\* contains letters contributes that text layer unmodified, without render
\* or OCR.
C4_LongLayerKept ==
    \A p \in 1..Len(page_log) :
        LET t == page_log[p].layer
        IN  (t # None /\ Len(t) >= 50 /\ HasLetter(t))
            => ContributedLayer(p)

\* C4, amended: every page whose text layer has at least 50 characters once
\* stripped and contains letters contributes that text layer unmodified,
\* without render or OCR.
C4_LongStrippedLayerKept ==
    \A p \in 1..Len(page_log) :
        LET t == page_log[p].layer
        IN  (t # None /\ Len(Strip(t)) >= 50 /\ HasLetter(t))
            => ContributedLayer(p)

\* a padded page of 50 letters was kept, padding included
C4_Witness ==
    /\ pc = "preview"
    /\ \E p \in 1..Len(page_log) :
         LET t == page_log[p].layer
         IN  /\ t # None /\ Len(Strip(t)) >= 50 /\ HasLetter(t)
             /\ Len(t) > Len(Strip(t))
             /\ ContributedLayer(p)

\* C5: a run whose LLM call returned and that shows the transaction table
\* also offers the transactions CSV, next to the summary CSV; such a run
\* offers two downloads exactly when transactions were extracted.
C5_TransactionsCsvOffered ==
    (llm_outcome = "returned" /\ pc \in {"complete", "footer", "done"})
    => (SummaryOffered /\ (TxTableShown <=> TransactionsOffered))

\* C6: with the API key absent or empty the run reports an error and stops
\* before the client exists; it never extracts text, calls the LLM, displays
\* a result or offers a download.
C6_MissingKeyStops ==
    (groq_key = None \/ groq_key = <<>>)
    => (/\ ~client
        /\ pc \in {"start", "verify_key", "stopped"}
        /\ (pc = "stopped" => HasUi("error", "GROQ_API_KEY missing"))
        /\ page_log = <<>> /\ texts = <<>>
        /\ llm_calls = 0 /\ messages = <<>>
        /\ \A i \in 1..Len(ui) :
              ui[i].kind \in {"markdown", "error"}
              /\ (ui[i].kind = "markdown" => ui[i].body = "header"))

\* a run with an empty key has stopped with the error
C6_Witness ==
    /\ groq_key = <<>>
    /\ pc = "stopped"
    /\ extract_btn /\ uploaded_file.present
    /\ HasUi("error", "GROQ_API_KEY missing")

\* C7: when the LLM call raises, the run shows an error and halts: no JSON
\* parsing, no summary or transaction display, no download and no
\* "Extraction complete" message follows.
C7_LlmFailureHalts ==
    (llm_outcome = "raised")
    => (/\ pc = "stopped"
        /\ ui[Len(ui)] = [kind |-> "error", body |-> "Groq API Error"]
        /\ ~parse_failed /\ result = <<>> /\ response_text = None
        /\ ~tx_df.defined
        /\ \A i \in 1..Len(ui) :
              ui[i].kind \in {"markdown", "image", "error"}
              /\ (ui[i].kind = "markdown" => ui[i].body = "header"))

\* the LLM call of a run raised
C7_Witness ==
    /\ llm_outcome = "raised"
    /\ llm_calls = 1
    /\ pc = "stopped"

\* C8: when JSON extraction or parsing of the completion text fails, the run
\* goes on: it displays the completion text verbatim as unstructured output,
\* offers the summary CSV and shows "Extraction complete"; it never stops or
\* raises.
C8_ParseFailureNotFatal ==
    parse_failed
    => (/\ pc \in AfterParse \cup {"done"}
        /\ result = RawMapping(response_text)
        /\ (pc # "display"
              => /\ HasUi("warning", "Model returned unstructured data")
                 /\ HasUi("text", PyStr(response_text))
                 /\ ~HasKind("table") /\ ~HasKind("dataframe"))
        /\ (pc \in {"complete", "footer", "done"}
              => /\ Cardinality(Downloads("Download Summary (CSV)")) = 1
                 /\ \A i \in Downloads("Download Summary (CSV)") :
                       ui[i].body.data = <<RawMapping(response_text)>>)
        /\ (pc \in {"footer", "done"}
              => HasUi("success", "Extraction complete")))

\* a run whose completion text holds braces but does not parse is complete
C8_Witness ==
    /\ parse_failed
    /\ response_text # None
    /\ HasChar(response_text, "{") /\ HasChar(response_text, "}")
    /\ pc = "done"
    /\ HasUi("success", "Extraction complete")

\* C9: a run calls the LLM at most once, and only after every page has been
\* extracted; nothing is retried; a run without the button or without a file
\* makes no call.
C9_AtMostOneCall ==
    /\ llm_calls <= 1
    /\ Len(messages) = llm_calls
    /\ (llm_calls = 0) = (llm_outcome = "none")
    /\ (llm_calls = 1
          => /\ extract_btn /\ uploaded_file.present
             /\ page_idx = uploaded_file.npages
             /\ Len(page_log) = uploaded_file.npages
             /\ Len(texts) = uploaded_file.npages
             /\ pc \in {"parse", "stopped", "done"} \cup AfterParse)

\* a failed call on an extracted PDF was the only call
C9_Witness ==
    /\ llm_calls = 1
    /\ llm_outcome = "raised"
    /\ uploaded_file.npages >= 1
    /\ Len(page_log) = uploaded_file.npages
    /\ pc = "stopped"

\* C10: the prompt holds exactly the first min(len(text), 7000) characters
\* of the extracted text, lists exactly the selected field names, which are
\* among the ten enumerated names, and is sent as a single user message.
C10_PromptContents ==
    (pc \in {"query", "parse", "stopped", "done"} \cup AfterParse
       /\ client /\ page_idx = uploaded_file.npages /\ uploaded_file.npages > 0
       /\ extract_btn)
    => (/\ Len(prompt.statement) = Min(Len(pdf_text), 7000)
        /\ prompt.statement = SubSeq(pdf_text, 1, Len(prompt.statement))
        /\ LET names == {i \in 1..Len(prompt.fields) :
                            prompt.fields[i] # ", "}
           IN  /\ {prompt.fields[i] : i \in names}
                    = {f \in FieldNames : checkboxes[f]}
               /\ Cardinality(names)
                    = Cardinality({f \in FieldNames : checkboxes[f]})
               /\ {prompt.fields[i] : i \in names} \subseteq FieldNames
        /\ \A i \in 1..Len(messages) :
              messages[i] = [role |-> "user", content |-> prompt])

\* a text longer than 7000 characters was cut and sent without one field
C10_Witness ==
    /\ pc = "parse"
    /\ Len(pdf_text) > 7000
    /\ Len(prompt.statement) = 7000
    /\ ~checkboxes["transaction information"]
    /\ Len(messages) = 1

====
